---- MODULE Spec2Model ----
(***************************************************************************)
(* socket_nodes: a TCP dispatch server (libserver.Server) that hands      *)
(* requests to connected worker nodes (libnode.BaseNode) and resolves     *)
(* RequestClass futures positionally, per node, in FIFO order.            *)
(*                                                                         *)
(* Python values are written as their repr in a string: "'6*7'" is the    *)
(* str 6*7, "42" the int 42, "False" the bool False.  Python list         *)
(* indices (node_id) are 0-based; TLA+ sequences are 1-based.             *)
(***************************************************************************)
EXTENDS Integers, Sequences, FiniteSets, TLC

\* Bounds of the model.
MaxConn == 2        \* connections made to the server over a run
MaxReq == 2         \* RequestClass objects created over a run

\* Sockets are numbered in the order the connections are made; the listening
\* socket (Server.socket) is 0.
ServerSocket == 0
Socks == 1..MaxConn
NodeIds == 0..(MaxConn - 1)

NoResult == "NoResult"

\* Request payloads the callers pass to Server.request: expressions for the
\* node to evaluate (example.py) ...
Payloads == {"'6*7'", "'2**10'"}

\* ... and payloads that make eval raise on the node, or pickle.dumps raise
\* on the server.
AllPayloads == Payloads \cup {"'1/0'", "<function>"}

\* Payloads whose value on the node is 42 and False.
ValuePayloads == {"'6*7'", "'1==2'"}

\* pickle.dumps(v) raises for a function object.
Picklable(v) == v # "<function>"

\* x == False in Python: True for False, 0 and 0.0.
PyEqFalse(v) == v \in {"False", "0", "0.0"}

\* x is False in Python: only the bool False.
PyIsFalse(v) == v = "False"

\* eval(request): .raises tells whether eval raised, .value is the result or
\* the exception.
PyEval(request) ==
    CASE request = "'6*7'"   -> [raises |-> FALSE, value |-> "42"]
      [] request = "'2**10'" -> [raises |-> FALSE, value |-> "1024"]
      [] request = "'1==2'"  -> [raises |-> FALSE, value |-> "False"]
      [] request = "'1/0'"   -> [raises |-> TRUE,  value |-> "ZeroDivisionError()"]
      [] OTHER               -> [raises |-> TRUE,  value |-> "TypeError()"]

\* BaseNode.execute: eval(request), exceptions propagate.
execute(request) == PyEval(request)

\* BaseNode.verify: accepts every request.
verify(request) == TRUE

VARIABLES
    active,             \* Server.active
    listening,          \* Server.socket is open
    nodes,              \* Server.nodes: sequence of ConnectedNode records
    ids,                \* ConnectedNode.ids, the class counter
    futures,            \* every RequestClass created, by creation order
    nconn,              \* connections made by peers so far
    peer,               \* peer[s]: the process at the other end of socket s
    toNode,             \* toNode[s]: frames written by the server, unread by the peer
    toServer,           \* toServer[s]: frames written by the peer, unread by the server
    oob,                \* oob[s]: socket s has urgent data pending (exceptional condition)
    pc,                 \* position of the event-loop thread (Server.run / Server.listen)
    sockets_list,       \* listen(): the local sockets_list of the current round
    read_sockets,       \* listen(): read_sockets still to be handled
    exception_sockets,  \* listen(): exception_sockets still to be handled
    loopErr,            \* the exception that ended Server.run, or "none"
    unsent,             \* sockets of node records holding a future whose frame was never sent
    serverClass,        \* the class of the server object
    waiter,             \* the thread calling Server.wait_node or Server.wait_connection:
                        \* where it is (pc) and the local it compares with (idx: the
                        \* node_id of wait_node, the n_nodes of wait_connection)
    gone,               \* the indices at which handle_disconnection removed a node (history)
    caller,             \* caller[t]: the call of Server.request thread t is in
    rx,                 \* one direction of one connection, byte by byte (recv_raw)
    finishing,          \* the event loop inside finish_request: its locals and position
    reader              \* the thread calling RequestClass.result(): where it is

vars == <<active, listening, nodes, ids, futures, nconn, peer, toNode, toServer, oob,
          pc, sockets_list, read_sockets, exception_sockets, loopErr, unsent,
          serverClass, waiter, gone, caller, rx, finishing, reader>>

Range(seq) == {seq[i] : i \in 1..Len(seq)}

\* Mutant of DelAt: the first element is deleted whatever the index.
DelAt_Head(seq, i) == Tail(seq)

\* list.pop(0) leaves the tail; del list[i] (0-based i) leaves the rest.
DelAt(seq, i) == [j \in 1..(Len(seq) - 1) |-> IF j <= i THEN seq[j] ELSE seq[j + 1]]

\* [Node.socket for Node in self.nodes]
SocketsOf(ns) == [i \in 1..Len(ns) |-> ns[i].socket]

\* list.index(x): the 0-based position of the first x (the caller checks membership).
ListIndex(seq, x) == (CHOOSE i \in 1..Len(seq) : seq[i] = x /\ \A j \in 1..(i - 1) : seq[j] # x) - 1

\* RequestClass.__init__; .node records the socket of the node record that
\* queued it (history only, the code keeps no such field).
RequestClass(request, sock) ==
    [request |-> request, status |-> "InProgress", result |-> NoResult, node |-> sock]

\* ConnectedNode.__init__
ConnectedNode(sock, id) == [socket |-> sock, requests |-> <<>>, ids |-> id]

\* ConnectedNode.is_busy
is_busy(node) == node.requests # <<>>

\* Mutant of NodeDel: the result is reset but the status is left as it was.
NodeDel_StatusKept(futs, q) ==
    [f \in 1..Len(futs) |->
        IF f \in q THEN [futs[f] EXCEPT !.result = NoResult] ELSE futs[f]]

\* ConnectedNode.__del__ on records whose queues hold the requests q: every
\* queued request becomes Disconnected with NoResult.
NodeDel(futs, q) ==
    [f \in 1..Len(futs) |->
        IF f \in q
        THEN [futs[f] EXCEPT !.status = "Disconnected", !.result = NoResult]
        ELSE futs[f]]

\* The state Server's methods read and write.
Srv == [active |-> active, listening |-> listening, nodes |-> nodes, futures |-> futures]

\* Mutant of add_request: the request is appended to the queue twice.
add_request_Twice(S, node_id, request_data) ==
    LET k == node_id + 1
        f == Len(S.futures) + 1
    IN [S EXCEPT !.futures = Append(@, RequestClass(request_data, S.nodes[k].socket)),
                 !.nodes[k].requests = @ \o <<f, f>>]

\* ConnectedNode.add_request on self.nodes[node_id]
add_request(S, node_id, request_data) ==
    LET k == node_id + 1
        f == Len(S.futures) + 1
    IN [S EXCEPT !.futures = Append(@, RequestClass(request_data, S.nodes[k].socket)),
                 !.nodes[k].requests = Append(@, f)]

\* Mutant of finish_request: self.requests.pop() takes the newest request.
finish_request_PopLast(S, node_id, result) ==
    LET k == node_id + 1
        q == S.nodes[k].requests
        f == q[Len(q)]
    IN [S EXCEPT !.nodes[k].requests = SubSeq(q, 1, Len(q) - 1),
                 !.futures[f].result = result,
                 !.futures[f].status = "Done"]

\* Mutant of finish_request: the head is read as self.requests[0] and stays queued.
finish_request_HeadKept(S, node_id, result) ==
    LET f == Head(S.nodes[node_id + 1].requests)
    IN [S EXCEPT !.futures[f].result = result,
                 !.futures[f].status = "Done"]

\* ConnectedNode.finish_request on self.nodes[node_id], queue not empty
finish_request(S, node_id, result) ==
    LET k == node_id + 1
        f == Head(S.nodes[k].requests)
    IN [S EXCEPT !.nodes[k].requests = Tail(@),
                 !.futures[f].result = result,
                 !.futures[f].status = "Done"]

\* The requests queued on the records ns.
Queued(ns) == UNION {Range(ns[i].requests) : i \in 1..Len(ns)}

\* Mutant of shutdown: self.nodes is not reset.
shutdown_NodesKept(S) == [S EXCEPT !.active = FALSE, !.listening = FALSE]

\* Server.shutdown: the records dropped with self.nodes are destroyed.
shutdown(S) ==
    [S EXCEPT !.active = FALSE,
              !.nodes = <<>>,
              !.listening = FALSE,
              !.futures = NodeDel(@, Queued(S.nodes))]

\* Server.stop_if_no_one_connected
stop_if_no_one_connected == TRUE

\* Mutant of handle_disconnection: the stop-on-empty policy is not applied.
handle_disconnection_NoStop(S, node_id) ==
    [S EXCEPT !.nodes = DelAt(@, node_id),
              !.futures = NodeDel(@, Range(S.nodes[node_id + 1].requests))]

\* Server.handle_disconnection(node_id), node_id a valid index
handle_disconnection(S, node_id) ==
    LET k == node_id + 1
        S1 == [S EXCEPT !.nodes = DelAt(@, node_id),
                        !.futures = NodeDel(@, Range(S.nodes[k].requests))]
    IN IF Len(S1.nodes) = 0 /\ stop_if_no_one_connected THEN shutdown(S1) ELSE S1

\* Mutant of class_handle_disconnection: the subclass does not override the method.
class_handle_disconnection_Base(cls, S, node_id) == handle_disconnection(S, node_id)

\* ServerNoDisconnectionAllowed.handle_disconnection / Server.handle_disconnection
class_handle_disconnection(cls, S, node_id) ==
    IF cls = "ServerNoDisconnectionAllowed"
    THEN shutdown(handle_disconnection(S, node_id))
    ELSE handle_disconnection(S, node_id)

\* Mutant of HandleRequest: execute is called whatever verify answered.
HandleRequest_NoVerify(ok, ex) ==
    IF ex.raises
    THEN [sent |-> <<>>, raised |-> TRUE]
    ELSE IF Picklable(ex.value)
         THEN [sent |-> <<ex.value>>, raised |-> FALSE]
         ELSE [sent |-> <<"PicklingError()">>, raised |-> FALSE]

\* The body of BaseNode.handle_request, ok being what self.verify(request)
\* returns and ex the outcome of self.execute(request) if it is called:
\* .sent are the response frames written, .raised tells whether an
\* exception left handle_request.
HandleRequest(ok, ex) ==
    IF ok /\ ex.raises
    THEN [sent |-> <<>>, raised |-> TRUE]
    ELSE LET result == IF ok THEN ex.value ELSE "'Invalid request'"
         IN IF Picklable(result)
            THEN [sent |-> <<result>>, raised |-> FALSE]
            ELSE [sent |-> <<"PicklingError()">>, raised |-> FALSE]

\* BaseNode.handle_request(request)
handle_request(request) == HandleRequest(verify(request), execute(request))

\* An ExecutorClass as ExecutorNode requires it (verify(request) -> bool,
\* execute(request) -> result): verify accepts the requests that are str,
\* execute is the one of example_node.EvalExecutorClass, eval with the
\* exception returned as the result.
Executor_verify(request) == request \in AllPayloads \cup ValuePayloads

Executor_execute(request) == [raises |-> FALSE, value |-> PyEval(request).value]

\* handle_request of an ExecutorNode: verify and execute are delegated to
\* the Executor.
ExecutorNode_handle_request(request) ==
    HandleRequest(Executor_verify(request), Executor_execute(request))

\* Requests passed to an ExecutorNode: a str to evaluate, and the int 7.
ExecutorPayloads == {"'6*7'", "7"}

\* Requests whose payload is a value Python compares equal to False: the int 0.
FalsyPayloads == {"'6*7'", "0"}

\* The classes of worker nodes.
WorkerKinds == {"BaseNode", "ExecutorNode"}

\* The threads of the application that call Server.request.
Threads == {"A", "B"}

\* A thread that is in no call of Server.request.  In a call: .request and
\* .node_indices are its arguments, .k the position of the target in hand,
\* .ret the futures request_to_one_node returned so far and .to the sockets
\* the frames were written to, in the order they were written (history).
IdleCaller ==
    [pc |-> "idle", request |-> "None", node_indices |-> <<>>, k |-> 0,
     ret |-> <<>>, to |-> <<>>]

\* A connection nothing was written to: .wire are the bytes in flight, .buf
\* the bytes in the receiver's socket buffer, .pc and .message_length the
\* position and local of the receiver's recv_raw, .sent the values framed by
\* the sender and .out the values recv_raw returned (histories).
IdleStream ==
    [wire |-> <<>>, buf |-> <<>>, pc |-> "header", message_length |-> 0,
     sent |-> <<>>, out |-> <<>>]

\* The event loop outside finish_request.  Inside: .Request is the future
\* popped, .result the argument and .k the position of the next write.
NoFinish == [Request |-> 0, result |-> NoResult, k |-> 0]

\* A thread outside RequestClass.result().  Inside: .Request is the future
\* it polls, .status the status it read last, .value what the call returned.
IdleReader == [pc |-> "idle", Request |-> 0, status |-> "None", value |-> NoResult]

----------------------------------------------------------------------------
\* Sockets.

PeerClosed(s) == peer[s].st = "closed"

\* The server process still references socket s: it is pending in the backlog
\* of the open listening socket, belongs to a node record, or is in the
\* sockets_list of the round the event loop is in.
ServerHolds(s) ==
    IF s > ids THEN listening
    ELSE s \in Range(SocketsOf(nodes)) \/ s \in Range(sockets_list)

ServerClosed(s) == peer[s].st # "absent" /\ ~ServerHolds(s)

\* select(): s is ready for reading.
Readable(s) ==
    IF s = ServerSocket THEN listening /\ ids < nconn
    ELSE toServer[s] # <<>> \/ PeerClosed(s)

\* select(): s is in an exceptional condition.
Exceptional(s) == s # ServerSocket /\ oob[s]

SetSrv(S) ==
    /\ active' = S.active
    /\ listening' = S.listening
    /\ nodes' = S.nodes
    /\ futures' = S.futures

\* Server.__init__ with setup=True and Server.run started in its thread,
\* blocked in the select of its first listen().
InitServer(cls) ==
    /\ active = TRUE
    /\ listening = TRUE
    /\ nodes = <<>>
    /\ ids = 0
    /\ futures = <<>>
    /\ nconn = 0
    /\ peer = [s \in Socks |-> [kind |-> "none", st |-> "absent"]]
    /\ toNode = [s \in Socks |-> <<>>]
    /\ toServer = [s \in Socks |-> <<>>]
    /\ oob = [s \in Socks |-> FALSE]
    /\ pc = "select"
    /\ sockets_list = <<ServerSocket>>
    /\ read_sockets = <<>>
    /\ exception_sockets = <<>>
    /\ loopErr = "none"
    /\ unsent = {}
    /\ serverClass = cls
    /\ waiter = [pc |-> "idle", idx |-> 0]
    /\ gone = {}
    /\ caller = [t \in Threads |-> IdleCaller]
    /\ rx = IdleStream
    /\ finishing = NoFinish
    /\ reader = IdleReader

Init == InitServer("Server")

----------------------------------------------------------------------------
\* Peers: the processes that connect to the server.

NetVars == <<nconn, peer, toNode, toServer, oob>>
LoopVars == <<pc, sockets_list, read_sockets, exception_sockets, loopErr>>
SrvVars == <<active, listening, nodes, futures>>

\* BaseNode.connect of a BaseNode or an ExecutorNode (kind "BaseNode",
\* "ExecutorNode"), or any other TCP client (kind "raw").
Connect(kind) ==
    /\ nconn < MaxConn
    /\ listening
    /\ nconn' = nconn + 1
    /\ peer' = [peer EXCEPT ![nconn + 1] = [kind |-> kind, st |-> "running"]]
    /\ UNCHANGED <<SrvVars, ids, toNode, toServer, oob, LoopVars, unsent,
                   serverClass, finishing, reader, caller, rx, waiter, gone>>

\* The peer's process is killed, or closes its socket.
Kill(s) ==
    /\ peer[s].st = "running"
    /\ peer' = [peer EXCEPT ![s].st = "closed"]
    /\ UNCHANGED <<SrvVars, ids, nconn, toNode, toServer, oob, LoopVars, unsent,
                   serverClass, finishing, reader, caller, rx, waiter, gone>>

\* One iteration of the loop of BaseNode.run with a request frame to read:
\* data == False ends the loop through handle_disconnection, an exception
\* leaving handle_request ends the process; either way the socket is closed.
NodeRequest(s) ==
    /\ peer[s].kind \in WorkerKinds
    /\ peer[s].st = "running"
    /\ toNode[s] # <<>>
    /\ LET data == Head(toNode[s])
           h == IF peer[s].kind = "ExecutorNode"
                THEN ExecutorNode_handle_request(data)
                ELSE handle_request(data)
       IN /\ toNode' = [toNode EXCEPT ![s] = Tail(@)]
          /\ IF PyEqFalse(data)
             THEN /\ peer' = [peer EXCEPT ![s].st = "closed"]
                  /\ UNCHANGED toServer
             ELSE /\ peer' = [peer EXCEPT ![s].st = IF h.raised THEN "closed" ELSE "running"]
                  /\ toServer' = [toServer EXCEPT ![s] =
                        IF ServerClosed(s) THEN @ ELSE @ \o h.sent]
    /\ UNCHANGED <<SrvVars, ids, nconn, oob, LoopVars, unsent, serverClass, finishing, reader, caller, rx, waiter, gone>>

\* The iteration of BaseNode.run that reads EOF: handle_disconnection, break.
NodeEOF(s) ==
    /\ peer[s].kind \in WorkerKinds
    /\ peer[s].st = "running"
    /\ toNode[s] = <<>>
    /\ ServerClosed(s)
    /\ peer' = [peer EXCEPT ![s].st = "closed"]
    /\ UNCHANGED <<SrvVars, ids, nconn, toNode, toServer, oob, LoopVars, unsent,
                   serverClass, finishing, reader, caller, rx, waiter, gone>>

\* Frames a peer that is not a BaseNode may write.
RawValues == {"42"}

\* A peer that is not a BaseNode writes a frame nobody asked for.
RawSend(s, v) ==
    /\ peer[s] = [kind |-> "raw", st |-> "running"]
    /\ toServer[s] = <<>>
    /\ ~ServerClosed(s)
    /\ toServer' = [toServer EXCEPT ![s] = Append(@, v)]
    /\ UNCHANGED <<SrvVars, ids, nconn, peer, toNode, oob, LoopVars, unsent,
                   serverClass, finishing, reader, caller, rx, waiter, gone>>

\* A peer that is not a BaseNode sends urgent (out-of-band) data.
RawUrgent(s) ==
    /\ peer[s] = [kind |-> "raw", st |-> "running"]
    /\ ~oob[s]
    /\ ~ServerClosed(s)
    /\ oob' = [oob EXCEPT ![s] = TRUE]
    /\ UNCHANGED <<SrvVars, ids, nconn, peer, toNode, toServer, LoopVars, unsent,
                   serverClass, finishing, reader, caller, rx, waiter, gone>>

----------------------------------------------------------------------------
\* The event-loop thread: Server.run and Server.listen.

\* An exception leaves listen() and run(): the thread ends, its locals are released.
Crash(err) ==
    /\ pc' = "crashed"
    /\ loopErr' = err
    /\ sockets_list' = <<>>
    /\ read_sockets' = <<>>
    /\ exception_sockets' = <<>>

\* listen(): select.select returns.
Select ==
    /\ pc = "select"
    /\ \E i \in 1..Len(sockets_list) :
          Readable(sockets_list[i]) \/ Exceptional(sockets_list[i])
    /\ read_sockets' = SelectSeq(sockets_list, Readable)
    /\ exception_sockets' = SelectSeq(sockets_list, Exceptional)
    /\ pc' = "read"
    /\ UNCHANGED <<SrvVars, ids, NetVars, sockets_list, loopErr, unsent, serverClass, finishing, reader, caller, rx,
                   waiter, gone>>

\* Server.handle_connection
handle_connection(ns, id) == Append(ns, ConnectedNode(id + 1, id))

\* listen(): notified_socket is the listening socket.
ListenConnection ==
    /\ pc = "read"
    /\ read_sockets # <<>>
    /\ Head(read_sockets) = ServerSocket
    /\ IF listening
       THEN /\ nodes' = handle_connection(nodes, ids)
            /\ ids' = ids + 1
            /\ read_sockets' = Tail(read_sockets)
            /\ UNCHANGED <<pc, sockets_list, exception_sockets, loopErr>>
       ELSE \* accept() on the socket shutdown() closed
            /\ Crash("OSError")
            /\ UNCHANGED <<nodes, ids>>
    /\ UNCHANGED <<active, listening, futures, NetVars, unsent, serverClass, finishing, reader, caller, rx, waiter, gone>>

\* Server.recv_raw(node_socket): the frame read, or "False" at EOF.
recv_raw(s) == IF toServer[s] # <<>> THEN Head(toServer[s]) ELSE "False"

\* listen(): notified_socket is a node's socket.
ListenNode ==
    /\ pc = "read"
    /\ read_sockets # <<>>
    /\ Head(read_sockets) # ServerSocket
    /\ LET s == Head(read_sockets)
           socks == SocketsOf(nodes)
       IN IF s \notin Range(socks)
          THEN \* _get_node_idx_by_socket: sockets_.index raises
               /\ Crash("ValueError")
               /\ UNCHANGED <<SrvVars, toServer>>
          ELSE LET node_id == ListIndex(socks, s)
                   income_data == recv_raw(s)
                   q == nodes[node_id + 1].requests
               IN /\ toServer' = [toServer EXCEPT ![s] = IF @ # <<>> THEN Tail(@) ELSE @]
                  /\ IF PyIsFalse(income_data)
                     THEN /\ SetSrv(class_handle_disconnection(serverClass, Srv, node_id))
                          /\ read_sockets' = Tail(read_sockets)
                          /\ UNCHANGED <<pc, sockets_list, exception_sockets, loopErr>>
                     ELSE IF q = <<>>
                     THEN \* finish_request: self.requests.pop(0) on an empty list
                          /\ Crash("IndexError")
                          /\ UNCHANGED SrvVars
                     ELSE /\ SetSrv(finish_request(Srv, node_id, income_data))
                          /\ read_sockets' = Tail(read_sockets)
                          /\ UNCHANGED <<pc, sockets_list, exception_sockets, loopErr>>
    /\ UNCHANGED <<ids, nconn, peer, toNode, oob, unsent, serverClass, finishing, reader, caller, rx, waiter>>

\* listen(): for notified_socket in exception_sockets:
\* self.handle_disconnection(notified_socket).  The argument is the socket
\* object, not an index: del self.nodes[notified_socket] raises TypeError
\* before anything is deleted (in both server classes).
ListenException ==
    /\ pc = "read"
    /\ read_sockets = <<>>
    /\ exception_sockets # <<>>
    /\ Crash("TypeError")
    /\ UNCHANGED <<SrvVars, ids, NetVars, unsent, serverClass, finishing, reader, caller, rx, waiter, gone>>

\* listen() returns; run() tests self.active and the next listen() builds its
\* sockets_list and blocks in select.
RunLoop ==
    /\ pc = "read"
    /\ read_sockets = <<>>
    /\ exception_sockets = <<>>
    /\ IF active
       THEN /\ pc' = "select"
            /\ sockets_list' = SocketsOf(nodes) \o <<ServerSocket>>
       ELSE /\ pc' = "done"
            /\ sockets_list' = <<>>
    /\ UNCHANGED <<SrvVars, ids, NetVars, read_sockets, exception_sockets, loopErr,
                   unsent, serverClass, finishing, reader, caller, rx, waiter, gone>>

----------------------------------------------------------------------------
\* Caller threads.

\* Server.send_raw(node_socket, data): the frames written to the socket; none
\* when pickle.dumps raises (the exception is logged and raised again).
send_raw(data) == IF Picklable(data) THEN <<data>> ELSE <<>>

\* Server.request(request_data, node_id) with an int node_id:
\* Server.request_to_one_node.  self.nodes[node_id] raises IndexError for an
\* index past the end, before anything is changed.
Request(request_data, node_id) ==
    /\ node_id < Len(nodes)
    /\ Len(futures) < MaxReq
    /\ LET S == add_request(Srv, node_id, request_data)
           node_socket == S.nodes[node_id + 1].socket
           msg == send_raw(request_data)
       IN /\ SetSrv(S)
          /\ toNode' = [toNode EXCEPT ![node_socket] =
                IF PeerClosed(node_socket) THEN @ ELSE @ \o msg]
          /\ unsent' = IF msg = <<>> THEN unsent \cup {node_socket} ELSE unsent
    /\ UNCHANGED <<ids, nconn, peer, toServer, oob, LoopVars, serverClass, finishing, reader, caller, rx, waiter, gone>>

\* A caller thread calls Server.shutdown().
Shutdown ==
    /\ active
    /\ SetSrv(shutdown(Srv))
    /\ UNCHANGED <<ids, NetVars, LoopVars, unsent, serverClass, finishing, reader, caller, rx, waiter, gone>>

\* Mutant of request_to_multiple_nodes: the targets are visited last to first.
request_to_multiple_nodes_Reversed(node_indices) ==
    [i \in 1..Len(node_indices) |-> node_indices[Len(node_indices) + 1 - i]]

\* Server.request_to_multiple_nodes: the node_id of the successive calls of
\* request_to_one_node made by the list comprehension.
request_to_multiple_nodes(node_indices) == node_indices

\* The lists of node indices a caller passes to Server.request.
TargetLists == {<<i>> : i \in NodeIds} \cup {<<i, j>> : i, j \in NodeIds}

\* Thread t calls Server.request(request_data, node_indices).
CallRequest(t, request_data, node_indices) ==
    /\ caller[t].pc = "idle"
    /\ Len(futures) + Len(node_indices) <= MaxReq
    /\ caller' = [caller EXCEPT ![t] =
          [pc |-> "add", request |-> request_data, node_indices |-> node_indices,
           k |-> 1, ret |-> <<>>, to |-> <<>>]]
    /\ UNCHANGED <<SrvVars, ids, NetVars, LoopVars, unsent, serverClass, finishing, reader, waiter, gone, rx>>

\* The node_id of the call of request_to_one_node thread t is in.
TargetOf(t) == request_to_multiple_nodes(caller[t].node_indices)[caller[t].k]

\* request_to_one_node in thread t, first statement:
\* Request = self.nodes[node_id].add_request(request_data)
ReqAdd(t) ==
    /\ caller[t].pc = "add"
    /\ IF TargetOf(t) >= Len(nodes)
       THEN /\ caller' = [caller EXCEPT ![t].pc = "IndexError"]
            /\ UNCHANGED SrvVars
       ELSE /\ Len(futures) < MaxReq
            /\ SetSrv(add_request(Srv, TargetOf(t), caller[t].request))
            /\ caller' = [caller EXCEPT ![t].pc = "send",
                                         ![t].ret = Append(@, Len(futures) + 1)]
    /\ UNCHANGED <<ids, NetVars, LoopVars, unsent, serverClass, finishing, reader, waiter, gone, rx>>

\* The future the call of request_to_one_node thread t is in has queued.
PendingOf(t) == caller[t].ret[Len(caller[t].ret)]

\* request_to_one_node in thread t, the statements after add_request:
\* node_socket = self.nodes[node_id].socket; self.send_raw(node_socket,
\* request_data); return Request.  The last call returning ends Server.request.
ReqSend(t) ==
    /\ caller[t].pc = "send"
    /\ IF TargetOf(t) >= Len(nodes)
       THEN /\ caller' = [caller EXCEPT ![t].pc = "IndexError"]
            /\ unsent' = unsent \cup {futures[PendingOf(t)].node}
            /\ UNCHANGED toNode
       ELSE LET node_socket == nodes[TargetOf(t) + 1].socket
                msg == send_raw(caller[t].request)
                last == caller[t].k = Len(caller[t].node_indices)
            IN /\ toNode' = [toNode EXCEPT ![node_socket] =
                     IF PeerClosed(node_socket) THEN @ ELSE @ \o msg]
               /\ unsent' = IF msg = <<>> \/ node_socket # futures[PendingOf(t)].node
                             THEN unsent \cup {futures[PendingOf(t)].node}
                             ELSE unsent
               /\ caller' = [caller EXCEPT
                     ![t].pc = IF last THEN "returned" ELSE "add",
                     ![t].k = IF last THEN @ ELSE @ + 1,
                     ![t].to = Append(@, node_socket)]
    /\ UNCHANGED <<SrvVars, ids, nconn, peer, toServer, oob, LoopVars, serverClass, finishing, reader,
                   waiter, gone, rx>>

----------------------------------------------------------------------------
\* The framing protocol on one direction of one connection, byte by byte
\* (Server.send_raw / BaseNode.recv_raw and BaseNode.send_raw /
\* Server.recv_raw are the same code).  A byte is a pair <<kind, name>>:
\* kind "ascii" for the characters of a header, the pickled value for the
\* bytes of its pickle.

\* Frames written to the connection over a run.
MaxFrames == 2

HEADER_LENGTH == 10

\* The values the sender frames.
FrameValues == {"42", "None"}

DigitChars == <<"0", "1", "2", "3", "4", "5", "6", "7", "8", "9">>

\* len(pickle.dumps(v)) with the default protocol: 42 is 5 bytes, None is 4.
PickleLen(v) == IF v = "42" THEN 5 ELSE 4

\* pickle.dumps(v)
pickle_dumps(v) == [i \in 1..PickleLen(v) |-> <<v, DigitChars[i + 1]>>]

\* pickle.loads(d): the value when d is a whole pickle, "raise" otherwise
\* (truncated data, or bytes that are no pickle).
pickle_loads(d) ==
    IF \E v \in FrameValues : d = pickle_dumps(v)
    THEN CHOOSE v \in FrameValues : d = pickle_dumps(v)
    ELSE "raise"

\* bytes(f"{n:<{HEADER_LENGTH}}", 'utf-8') for n < 10: the digit, then spaces.
Header(n) ==
    [i \in 1..HEADER_LENGTH |-> IF i = 1 THEN <<"ascii", DigitChars[n + 1]>>
                                          ELSE <<"ascii", " ">>]

\* send_raw(data): the bytes written.
Frame(v) == Header(Len(pickle_dumps(v))) \o pickle_dumps(v)

\* socket.recv(n) with the bytes b in the socket buffer (b not empty): the
\* first n of them, or all of them when fewer have arrived.
Recv(b, n) == SubSeq(b, 1, IF n < Len(b) THEN n ELSE Len(b))

IsSpace(byte) == byte = <<"ascii", " ">>

IsDigit(byte) == byte[1] = "ascii" /\ \E d \in 1..10 : byte[2] = DigitChars[d]

DigitVal(byte) == (CHOOSE d \in 1..10 : byte[2] = DigitChars[d]) - 1

\* str.strip()
Strip(b) ==
    LET keep == {i \in 1..Len(b) : ~IsSpace(b[i])}
    IN IF keep = {} THEN <<>>
       ELSE SubSeq(b, CHOOSE i \in keep : \A j \in keep : i <= j,
                      CHOOSE i \in keep : \A j \in keep : j <= i)

RECURSIVE DecimalVal(_)
DecimalVal(b) ==
    IF b = <<>> THEN 0
    ELSE 10 * DecimalVal(SubSeq(b, 1, Len(b) - 1)) + DigitVal(b[Len(b)])

\* int(message_header.decode('utf-8').strip()): the number, or -1 when
\* decode or int raises.
ParseHeader(h) ==
    LET t == Strip(h)
    IN IF t # <<>> /\ \A i \in 1..Len(t) : IsDigit(t[i]) THEN DecimalVal(t) ELSE -1

\* The sender's send_raw(v).
FrameSend(v) ==
    /\ Len(rx.sent) < MaxFrames
    /\ rx' = [rx EXCEPT !.wire = @ \o Frame(v), !.sent = Append(@, v)]
    /\ UNCHANGED <<SrvVars, ids, NetVars, LoopVars, unsent, serverClass, finishing, reader, waiter, gone,
                   caller>>

\* The network delivers the next k bytes to the receiver's socket buffer.
Deliver(k) ==
    /\ k \in 1..Len(rx.wire)
    /\ rx' = [rx EXCEPT !.buf = @ \o SubSeq(rx.wire, 1, k),
                         !.wire = SubSeq(@, k + 1, Len(@))]
    /\ UNCHANGED <<SrvVars, ids, NetVars, LoopVars, unsent, serverClass, finishing, reader, waiter, gone,
                   caller>>

\* recv_raw up to the header: message_header = recv(HEADER_LENGTH) and
\* message_length = int(...).  An exception is caught and makes recv_raw
\* return False.
RecvHeader ==
    /\ rx.pc = "header"
    /\ rx.buf # <<>>
    /\ LET message_header == Recv(rx.buf, HEADER_LENGTH)
           message_length == ParseHeader(message_header)
           rest == SubSeq(rx.buf, Len(message_header) + 1, Len(rx.buf))
       IN rx' = IF message_length < 0
                THEN [rx EXCEPT !.buf = rest, !.out = Append(@, "False")]
                ELSE [rx EXCEPT !.buf = rest, !.pc = "payload",
                                !.message_length = message_length]
    /\ UNCHANGED <<SrvVars, ids, NetVars, LoopVars, unsent, serverClass, finishing, reader, waiter, gone,
                   caller>>

\* recv_raw after the header: serialized_data = recv(message_length),
\* data = pickle.loads(serialized_data), return data; False on an exception.
RecvPayload ==
    /\ rx.pc = "payload"
    /\ rx.buf # <<>>
    /\ LET serialized_data == Recv(rx.buf, rx.message_length)
           data == pickle_loads(serialized_data)
       IN rx' = [rx EXCEPT
                   !.buf = SubSeq(@, Len(serialized_data) + 1, Len(@)),
                   !.pc = "header",
                   !.message_length = 0,
                   !.out = Append(@, IF data = "raise" THEN "False" ELSE data)]
    /\ UNCHANGED <<SrvVars, ids, NetVars, LoopVars, unsent, serverClass, finishing, reader, waiter, gone,
                   caller>>

\* Server.wait_node(node_id) is called.
WaitNodeCall(node_id) ==
    /\ waiter.pc = "idle"
    /\ waiter' = [pc |-> "wait_node", idx |-> node_id]
    /\ UNCHANGED <<SrvVars, ids, NetVars, LoopVars, unsent, serverClass, finishing, reader, caller, rx, gone>>

\* The condition of the loop of wait_node: the call keeps spinning while it holds.
wait_node_spins(node) == is_busy(node) = FALSE

\* Server.wait_node: the evaluation of the loop condition that ends the call,
\* by an IndexError on self.nodes[node_id] or by the condition being false.
WaitNodeEnd ==
    /\ waiter.pc = "wait_node"
    /\ waiter.idx < Len(nodes) => ~wait_node_spins(nodes[waiter.idx + 1])
    /\ waiter' = [pc |-> IF waiter.idx < Len(nodes) THEN "returned" ELSE "IndexError",
                  idx |-> waiter.idx]
    /\ UNCHANGED <<SrvVars, ids, NetVars, LoopVars, unsent, serverClass, finishing, reader, caller, rx, gone>>

\* Server.wait_connection(timeout) is called: n_nodes = len(self.nodes).
WaitConnectionCall ==
    /\ waiter.pc = "idle"
    /\ waiter' = [pc |-> "wait_connection", idx |-> Len(nodes)]
    /\ UNCHANGED <<SrvVars, ids, NetVars, LoopVars, unsent, serverClass, finishing, reader, caller, rx, gone>>

\* The condition of the loop of wait_connection: the call keeps polling while it holds.
wait_connection_spins(n_nodes) == Len(nodes) = n_nodes

\* Server.wait_connection: the loop condition is false, the call returns.
WaitConnectionEnd ==
    /\ waiter.pc = "wait_connection"
    /\ ~wait_connection_spins(waiter.idx)
    /\ waiter' = [waiter EXCEPT !.pc = "returned"]
    /\ UNCHANGED <<SrvVars, ids, NetVars, LoopVars, unsent, serverClass, finishing, reader, caller, rx, gone>>

\* Server.wait_connection: the loop condition holds and the deadline has
\* passed (time.time() - start_time > timeout), TimeoutError is raised.
WaitConnectionTimeout ==
    /\ waiter.pc = "wait_connection"
    /\ wait_connection_spins(waiter.idx)
    /\ waiter' = [waiter EXCEPT !.pc = "TimeoutError"]
    /\ UNCHANGED <<SrvVars, ids, NetVars, LoopVars, unsent, serverClass, finishing, reader, caller, rx, gone>>

----------------------------------------------------------------------------
\* finish_request statement by statement, and a thread in RequestClass.result().

\* Mutant of finish_request_writes: the status is assigned before the result.
finish_request_writes_StatusFirst == <<"status", "_result">>

\* ConnectedNode.finish_request: the attributes of Request it assigns after
\* the pop, in the order of the assignments.
finish_request_writes == <<"_result", "status">>

\* listen() is about to pass a response to handle_income: the socket in hand
\* is a node's, a frame whose value is not False is read from it and the
\* queue of its record is not empty.
IsResponse ==
    /\ pc = "read"
    /\ read_sockets # <<>>
    /\ Head(read_sockets) \in Range(SocketsOf(nodes))
    /\ toServer[Head(read_sockets)] # <<>>
    /\ ~PyIsFalse(recv_raw(Head(read_sockets)))
    /\ nodes[ListIndex(SocketsOf(nodes), Head(read_sockets)) + 1].requests # <<>>

\* listen() up to the first statement of finish_request:
\* Request = self.requests.pop(0).
FinishPop ==
    /\ IsResponse
    /\ LET s == Head(read_sockets)
           k == ListIndex(SocketsOf(nodes), s) + 1
       IN /\ finishing' = [Request |-> Head(nodes[k].requests),
                            result |-> recv_raw(s), k |-> 1]
          /\ nodes' = [nodes EXCEPT ![k].requests = Tail(@)]
          /\ toServer' = [toServer EXCEPT ![s] = Tail(@)]
    /\ pc' = "finish_request"
    /\ UNCHANGED <<active, listening, futures, ids, nconn, peer, toNode, oob,
                   sockets_list, read_sockets, exception_sockets, loopErr, unsent,
                   serverClass, waiter, gone, caller, rx, reader>>

\* finish_request: the next assignment to Request; after the last one the
\* method returns and listen() goes on with the next notified socket.
FinishWrite ==
    /\ pc = "finish_request"
    /\ LET f == finishing.Request
           last == finishing.k = Len(finish_request_writes)
       IN /\ futures' = IF finish_request_writes[finishing.k] = "_result"
                         THEN [futures EXCEPT ![f].result = finishing.result]
                         ELSE [futures EXCEPT ![f].status = "Done"]
          /\ finishing' = IF last THEN NoFinish ELSE [finishing EXCEPT !.k = @ + 1]
          /\ pc' = IF last THEN "read" ELSE pc
          /\ read_sockets' = IF last THEN Tail(read_sockets) ELSE read_sockets
    /\ UNCHANGED <<active, listening, nodes, ids, NetVars, sockets_list,
                   exception_sockets, loopErr, unsent, serverClass, waiter, gone,
                   caller, rx, reader>>

\* A thread calls result() on the future f.
ReaderCall(f) ==
    /\ reader.pc = "idle"
    /\ f \in 1..Len(futures)
    /\ reader' = [reader EXCEPT !.pc = "poll", !.Request = f]
    /\ UNCHANGED <<SrvVars, ids, NetVars, LoopVars, unsent, serverClass, waiter, gone,
                   caller, rx, finishing>>

\* result(): one of the tests of self.status succeeds.  While the status
\* is InProgress the loop goes round and the state does not change.
ReaderSees ==
    /\ reader.pc = "poll"
    /\ futures[reader.Request].status \in {"Done", "Disconnected"}
    /\ reader' = [reader EXCEPT !.pc = "return",
                                 !.status = futures[reader.Request].status]
    /\ UNCHANGED <<SrvVars, ids, NetVars, LoopVars, unsent, serverClass, waiter, gone,
                   caller, rx, finishing>>

\* result(): return self._result
ReaderReturn ==
    /\ reader.pc = "return"
    /\ reader' = [reader EXCEPT !.pc = "returned",
                                 !.value = futures[reader.Request].result]
    /\ UNCHANGED <<SrvVars, ids, NetVars, LoopVars, unsent, serverClass, waiter, gone,
                   caller, rx, finishing>>

----------------------------------------------------------------------------
\* Specifications.

\* The index handle_disconnection is called with in a step of ListenNode.
RemovedIdx ==
    LET s == Head(read_sockets)
        socks == SocketsOf(nodes)
    IN IF s \in Range(socks) /\ PyIsFalse(recv_raw(s)) THEN {ListIndex(socks, s)} ELSE {}

\* The server, BaseNode workers and callers passing the payloads P.
Core(P) ==
    \/ Connect("BaseNode")
    \/ \E s \in Socks : Kill(s)
    \/ \E s \in Socks : NodeRequest(s)
    \/ \E s \in Socks : NodeEOF(s)
    \/ Select
    \/ ListenConnection
    \/ RunLoop
    \/ \E p \in P, i \in NodeIds : Request(p, i)
    \/ Shutdown

\* Peers that are not BaseNode workers, and what only they make the loop do.
OtherPeers ==
    \/ Connect("raw")
    \/ \E s \in Socks, v \in RawValues : RawSend(s, v)
    \/ \E s \in Socks : RawUrgent(s)
    \/ ListenException

Next ==
    \/ Core(Payloads)
    \/ ListenNode /\ UNCHANGED gone

\* Server with BaseNode workers and well-formed requests.
Spec == Init /\ [][Next]_vars

NextPayloads ==
    \/ Core(AllPayloads)
    \/ ListenNode /\ UNCHANGED gone

\* Requests include the ones eval or pickle raises on.
SpecPayloads == Init /\ [][NextPayloads]_vars

NextPeers ==
    \/ Core(Payloads)
    \/ OtherPeers
    \/ ListenNode /\ UNCHANGED gone

\* Any TCP client may connect.
SpecPeers == Init /\ [][NextPeers]_vars

NextIdx ==
    \/ Core(Payloads)
    \/ ListenNode /\ gone' = gone \cup RemovedIdx

\* As Spec, recording the indices of the nodes that disconnected.
SpecIdx == Init /\ [][NextIdx]_vars

NextWait ==
    \/ Core(Payloads)
    \/ ListenNode /\ UNCHANGED gone
    \/ \E i \in NodeIds : WaitNodeCall(i)
    \/ WaitNodeEnd

\* As Spec, with a thread calling Server.wait_node.
SpecWait == Init /\ [][NextWait]_vars

NextConn ==
    \/ Core(Payloads)
    \/ ListenNode /\ UNCHANGED gone
    \/ WaitConnectionCall
    \/ WaitConnectionEnd
    \/ WaitConnectionTimeout

\* As Spec, with a thread calling Server.wait_connection.
SpecConn == Init /\ [][NextConn]_vars

NextValues ==
    \/ Core(ValuePayloads)
    \/ ListenNode /\ UNCHANGED gone

\* As Spec, with a request whose result is the value False.
SpecValues == Init /\ [][NextValues]_vars

NextFrames ==
    \/ \E v \in FrameValues : FrameSend(v)
    \/ \E k \in 1..Len(rx.wire) : Deliver(k)
    \/ RecvHeader
    \/ RecvPayload

\* One connection seen as a byte stream: a sender framing values, the
\* network delivering the bytes in pieces, a receiver calling recv_raw.
SpecFrames == Init /\ [][NextFrames]_vars

NextExecutor ==
    \/ Core(ExecutorPayloads)
    \/ Connect("ExecutorNode")
    \/ ListenNode /\ UNCHANGED gone

\* BaseNode and ExecutorNode workers, and requests the Executor rejects.
SpecExecutor == Init /\ [][NextExecutor]_vars

NextFalsy ==
    \/ Core(FalsyPayloads)
    \/ Connect("ExecutorNode")
    \/ ListenNode /\ UNCHANGED gone

\* BaseNode and ExecutorNode workers, and a request whose payload is 0.
SpecFalsy == Init /\ [][NextFalsy]_vars

NextRound ==
    \/ Connect("BaseNode")
    \/ \E s \in Socks : Kill(s)
    \/ \E s \in Socks : NodeRequest(s)
    \/ \E s \in Socks : NodeEOF(s)
    \/ Select
    \/ ListenConnection
    \/ ListenNode /\ UNCHANGED gone
    \/ RunLoop
    \/ \E p \in Payloads, i \in NodeIds : Request(p, i)

\* ServerNoDisconnectionAllowed with BaseNode workers and no caller of
\* Server.shutdown: the server shuts down only from handle_disconnection.
SpecRound == InitServer("ServerNoDisconnectionAllowed") /\ [][NextRound]_vars

NextResult ==
    \/ Core(Payloads)
    \/ ListenNode /\ ~IsResponse /\ UNCHANGED gone
    \/ FinishPop
    \/ FinishWrite
    \/ \E f \in 1..MaxReq : ReaderCall(f)
    \/ ReaderSees
    \/ ReaderReturn

\* As Spec, with finish_request running statement by statement beside the
\* caller threads and a thread that polls a future with result().
SpecResult == Init /\ [][NextResult]_vars

\* The steps of the threads calling Server.request.
CallerSteps ==
    \/ \E t \in Threads, p \in Payloads, l \in TargetLists : CallRequest(t, p, l)
    \/ \E t \in Threads : ReqAdd(t)
    \/ \E t \in Threads : ReqSend(t)

NextBroadcast ==
    \/ Connect("BaseNode")
    \/ \E s \in Socks : NodeRequest(s)
    \/ Select
    \/ ListenConnection
    \/ ListenNode /\ UNCHANGED gone
    \/ RunLoop
    \/ CallerSteps

\* Caller threads, statement by statement, while no node disconnects: every
\* index that is valid stays valid and keeps naming the same node.
SpecBroadcast == Init /\ [][NextBroadcast]_vars

NextThreads ==
    \/ NextBroadcast
    \/ \E s \in Socks : Kill(s)
    \/ \E s \in Socks : NodeEOF(s)

\* Caller threads, statement by statement, while nodes may disconnect.
SpecThreads == Init /\ [][NextThreads]_vars

\* ServerNoDisconnectionAllowed (the default of utils.create_server_and_nodes)
\* with BaseNode workers, recording the indices of the nodes that disconnected.
SpecStrict == InitServer("ServerNoDisconnectionAllowed") /\ [][NextIdx]_vars

----------------------------------------------------------------------------
\* Claims.

FutureIds == 1..Len(futures)

\* The response frame a BaseNode writes for a request.
ResponseTo(request) == handle_request(request).sent

\* The node record holding socket s in the record sequence ns.
RecordOf(ns, s) == ns[ListIndex(SocketsOf(ns), s) + 1]

\* C1: with a BaseNode worker answering in order and every request to the
\* node written to its socket, a future resolved Done holds the response to
\* its own request: the i-th response resolves the i-th future.
C1_FifoMatching ==
    \A f \in FutureIds :
        (/\ futures[f].status = "Done"
         /\ peer[futures[f].node].kind = "BaseNode"
         /\ futures[f].node \notin unsent)
        => ResponseTo(futures[f].request) = <<futures[f].result>>

\* Two requests with different payloads to one node, both resolved.
C1_Witness ==
    \E f, g \in FutureIds :
        /\ f < g
        /\ futures[f].node = futures[g].node
        /\ futures[f].request # futures[g].request
        /\ futures[f].status = "Done"
        /\ futures[g].status = "Done"
        /\ ResponseTo(futures[f].request) = <<futures[f].result>>
        /\ ResponseTo(futures[g].request) = <<futures[g].result>>

\* The event loop takes the step of listen() that reads EOF from node socket s.
HandlesEOF(s) ==
    /\ pc = "read"
    /\ read_sockets # <<>>
    /\ Head(read_sockets) = s
    /\ s \in Range(SocketsOf(nodes))
    /\ toServer[s] = <<>>
    /\ pc' = "read"
    /\ read_sockets' = Tail(read_sockets)

\* C2: handling the EOF of a node removes its record from Server.nodes and
\* leaves every future of its queue Disconnected with NoResult.
C2_DisconnectResolvesQueue ==
    [][\A s \in Socks :
          HandlesEOF(s) =>
             /\ s \notin Range(SocketsOf(nodes'))
             /\ \A f \in Range(RecordOf(nodes, s).requests) :
                   /\ futures'[f].status = "Disconnected"
                   /\ futures'[f].result = NoResult]_vars

\* A node with two queued futures was disconnected while another node stayed.
C2_Witness ==
    \E f, g \in FutureIds :
        /\ f # g
        /\ futures[f].node = futures[g].node
        /\ futures[f].status = "Disconnected"
        /\ futures[g].status = "Disconnected"
        /\ futures[f].node \notin Range(SocketsOf(nodes))
        /\ active
        /\ nodes # <<>>

\* C3: once Server.shutdown has run the server is inactive with no node
\* records and no future is InProgress; the step that shuts down leaves every
\* future that was InProgress Disconnected.
C3_ShutdownResolvesAll ==
    /\ [](~active => /\ nodes = <<>>
                     /\ \A f \in FutureIds : futures[f].status # "InProgress")
    /\ [][(active /\ ~active') =>
             \A f \in FutureIds :
                futures[f].status = "InProgress" => futures'[f].status = "Disconnected"]_vars

\* shutdown() ran while a worker was connected and running with a request outstanding.
C3_Witness ==
    /\ ~active
    /\ \E f \in FutureIds :
          /\ futures[f].status = "Disconnected"
          /\ peer[futures[f].node].st = "running"

\* C4: a future that is Done or Disconnected never changes again, whatever
\* responses, disconnections or shutdown follow.
C4_ResolvedOnce ==
    [][\A f \in FutureIds :
          futures[f].status # "InProgress" => futures'[f] = futures[f]]_vars

\* A future resolved Done, and the server shut down after it.
C4_Witness ==
    /\ ~active
    /\ \E f, g \in FutureIds :
          /\ futures[f].status = "Done"
          /\ futures[g].status = "Disconnected"
          /\ futures[f].node = futures[g].node

\* The event-loop thread and the worker processes keep being scheduled.
Fairness ==
    /\ WF_vars(Select)
    /\ WF_vars(ListenConnection)
    /\ WF_vars(ListenNode /\ UNCHANGED gone)
    /\ WF_vars(ListenException)
    /\ WF_vars(RunLoop)
    /\ \A s \in Socks : WF_vars(NodeRequest(s)) /\ WF_vars(NodeEOF(s))

FairSpec == Spec /\ Fairness

FairPeers == SpecPeers /\ Fairness

\* Future f is InProgress and its node has closed the connection, or is a
\* BaseNode that has answered every request frame written to it.
Owed(f) ==
    /\ f \in FutureIds
    /\ futures[f].status = "InProgress"
    /\ \/ PeerClosed(futures[f].node)
       \/ /\ peer[futures[f].node].kind = "BaseNode"
          /\ futures[f].node \notin unsent
          /\ toNode[futures[f].node] = <<>>

\* C5: with the event loop scheduled, a future whose node has answered it or
\* closed its connection eventually leaves InProgress.
C5_EventuallyResolved ==
    \A f \in 1..MaxReq :
        Owed(f) ~> (f \in FutureIds /\ futures[f].status # "InProgress")

\* A BaseNode worker takes the step that decodes the request frame at the
\* head of its stream, the server's end of the socket being open.
Decodes(s) ==
    /\ peer[s] = [kind |-> "BaseNode", st |-> "running"]
    /\ toNode[s] # <<>>
    /\ ~ServerClosed(s)
    /\ toNode'[s] = Tail(toNode[s])

\* C6: for every request frame the worker decodes it writes exactly one
\* response frame and keeps running, also when execute raises.
C6_OneResponsePerRequest ==
    [][\A s \in Socks :
          Decodes(s) =>
             /\ Len(toServer'[s]) = Len(toServer[s]) + 1
             /\ peer'[s].st = "running"]_vars

\* A step of Server.request that queues a future on the node at index i.
RequestsTo(i) ==
    /\ i < Len(nodes)
    /\ Len(nodes') = Len(nodes)
    /\ Len(futures') = Len(futures) + 1
    /\ nodes'[i + 1].requests # nodes[i + 1].requests

\* C7: once the node at index i has disconnected and been removed, no later
\* Server.request(payload, i) queues a future or sends a frame.
C7_RemovedIndexRejected ==
    [][\A i \in gone : ~RequestsTo(i)]_vars

\* The event loop takes the step of listen() that handles the first socket of
\* exception_sockets.
HandlesException(s) ==
    /\ pc = "read"
    /\ read_sockets = <<>>
    /\ exception_sockets # <<>>
    /\ Head(exception_sockets) = s
    /\ s \in Range(SocketsOf(nodes))
    /\ exception_sockets' # exception_sockets

\* C8: a node socket in the exceptional set is handled as an EOF: its record
\* is removed and its queued futures become Disconnected.
C8_ExceptionAsDisconnection ==
    [][\A s \in Socks :
          HandlesException(s) =>
             /\ s \notin Range(SocketsOf(nodes'))
             /\ \A f \in Range(RecordOf(nodes, s).requests) :
                   futures'[f].status = "Disconnected"]_vars

\* The event loop takes the step of listen() that reads a response frame from
\* node socket s while the queue of its record is empty.
HandlesUnexpected(s) ==
    /\ pc = "read"
    /\ read_sockets # <<>>
    /\ Head(read_sockets) = s
    /\ s \in Range(SocketsOf(nodes))
    /\ toServer[s] # <<>>
    /\ ~PyIsFalse(Head(toServer[s]))
    /\ RecordOf(nodes, s).requests = <<>>
    /\ toServer'[s] = Tail(toServer[s])

\* C9: a response arriving for a node with an empty queue does not stop the
\* server: the event loop keeps running, the server stays active, the node
\* records stay and no future changes.
C9_UnexpectedResponseTolerated ==
    [][\A s \in Socks :
          HandlesUnexpected(s) =>
             /\ pc' \notin {"crashed", "done"}
             /\ active'
             /\ nodes' = nodes
             /\ futures' = futures]_vars

\* C10: Server.wait_node(i) returns only when the queue of the node at index
\* i is empty.
C10_WaitNodeReturnsIdle ==
    [][(waiter.pc = "wait_node" /\ waiter'.pc = "returned") =>
          ~is_busy(nodes[waiter.idx + 1])]_vars

\* C11: Server.wait_connection returns normally only when the number of
\* connected nodes has grown since the call began, and raises TimeoutError
\* only when it has not; a node count that shrank does not make it return.
C11_WaitConnectionGrowth ==
    [][/\ (waiter.pc = "wait_connection" /\ waiter'.pc = "returned")
            => Len(nodes) > waiter.idx
       /\ (waiter.pc = "wait_connection" /\ waiter'.pc = "TimeoutError")
            => ~(Len(nodes) > waiter.idx)]_vars

\* C12: in the base Server with stop_if_no_one_connected, handling the
\* disconnection of the last node shuts the server down; handling one that
\* leaves other nodes connected keeps the server active with exactly the
\* remaining records, in their order.
C12_StopOnLastNode ==
    [][\A s \in Socks :
          (HandlesEOF(s) /\ serverClass = "Server") =>
             IF Len(nodes) = 1
             THEN ~active'
             ELSE /\ active'
                  /\ nodes' = DelAt(nodes, ListIndex(SocketsOf(nodes), s))]_vars

\* Two nodes were accepted; the one at index 1 disconnected while the other
\* stayed, then the remaining one disconnected and the server stopped.
C12_Witness ==
    /\ serverClass = "Server"
    /\ ids = 2
    /\ gone = {0, 1}
    /\ ~active

\* C13: in ServerNoDisconnectionAllowed, handling the disconnection of any
\* node shuts the server down however many nodes remain: active becomes
\* False, Server.nodes becomes empty and every future queued on any node
\* becomes Disconnected.
C13_StrictShutsDown ==
    [][\A s \in Socks :
          (HandlesEOF(s) /\ serverClass = "ServerNoDisconnectionAllowed") =>
             /\ ~active'
             /\ nodes' = <<>>
             /\ \A f \in Queued(nodes) : futures'[f].status = "Disconnected"]_vars

\* The node at index 0 disconnected while the second node was connected and
\* running with a request outstanding: that request is Disconnected.
C13_Witness ==
    /\ serverClass = "ServerNoDisconnectionAllowed"
    /\ gone = {0}
    /\ ~active
    /\ nodes = <<>>
    /\ \E f \in FutureIds :
          /\ futures[f].node = 2
          /\ futures[f].status = "Disconnected"
          /\ peer[2].st = "running"

\* The call of Server.request thread t made has returned.
Returned(t) == caller[t].pc = "returned"

\* C14: Server.request(payload, [t1..tn]) with valid indices returns n
\* futures, the i-th being the one queued for payload on the node at index
\* ti, created in the order of the list, and the frames were written to the
\* sockets of t1, ..., tn in that order.
C14_BroadcastOrder ==
    \A t \in Threads :
        Returned(t) =>
            LET c == caller[t]
                n == Len(c.node_indices)
            IN /\ Len(c.ret) = n
               /\ Len(c.to) = n
               /\ \A i \in 1..n :
                     /\ futures[c.ret[i]].request = c.request
                     /\ futures[c.ret[i]].node = nodes[c.node_indices[i] + 1].socket
                     /\ c.to[i] = nodes[c.node_indices[i] + 1].socket
               /\ \A i, j \in 1..n : i < j => c.ret[i] < c.ret[j]

\* A call with two different targets, the higher index first, has returned.
C14_Witness ==
    \E t \in Threads :
        /\ Returned(t)
        /\ caller[t].node_indices = <<1, 0>>
        /\ caller[t].to = <<2, 1>>

\* Thread t takes the step of request_to_one_node that writes the request frame.
Sends(t) ==
    /\ caller[t].pc = "send"
    /\ Len(caller'[t].to) = Len(caller[t].to) + 1

\* C19: the frames of the requests queued on a node are written to its
\* socket in queue order: when a thread writes the frame of its future, no
\* other thread still has to write the frame of a future queued earlier on
\* the same node.
C19_QueueOrderIsWireOrder ==
    [][\A t \in Threads :
          Sends(t) =>
             ~\E u \in Threads \ {t} :
                 /\ caller[u].pc = "send"
                 /\ futures[PendingOf(u)].node = futures[PendingOf(t)].node
                 /\ PendingOf(u) < PendingOf(t)]_vars

\* C20: the request frame is written to the socket of the node record whose
\* queue received the future of the call.
C20_FrameToQueueingNode ==
    [][\A t \in Threads :
          Sends(t) =>
             caller'[t].to[Len(caller'[t].to)] = futures[PendingOf(t)].node]_vars

\* The event loop takes the step of listen() that reads a response frame from
\* node socket s while the queue of its record is not empty.
HandlesResponse(s) ==
    /\ pc = "read"
    /\ read_sockets # <<>>
    /\ Head(read_sockets) = s
    /\ s \in Range(SocketsOf(nodes))
    /\ toServer[s] # <<>>
    /\ RecordOf(nodes, s).requests # <<>>
    /\ toServer'[s] = Tail(toServer[s])

\* C15: reading a response frame from a node with a non-empty queue
\* resolves the head future to Done with the decoded value, whatever the
\* value, and keeps the node connected.
C15_AnyValueResolvesHead ==
    [][\A s \in Socks :
          HandlesResponse(s) =>
             LET f == Head(RecordOf(nodes, s).requests)
             IN /\ futures'[f].status = "Done"
                /\ futures'[f].result = Head(toServer[s])
                /\ s \in Range(SocketsOf(nodes'))]_vars

\* The bytes of the frames of the values vs, one after the other.
RECURSIVE FramesOf(_)
FramesOf(vs) == IF vs = <<>> THEN <<>> ELSE Frame(Head(vs)) \o FramesOf(Tail(vs))

\* C16: however the bytes are delivered, the successive calls of recv_raw
\* return the values of the successive frames, and a call starts reading at
\* the first byte of a frame.
C16_OneFramePerCall ==
    /\ Len(rx.out) <= Len(rx.sent)
    /\ \A i \in 1..Len(rx.out) : rx.out[i] = rx.sent[i]
    /\ rx.pc = "header" =>
          rx.buf \o rx.wire = FramesOf(SubSeq(rx.sent, Len(rx.out) + 1, Len(rx.sent)))

\* An ExecutorNode takes the step that decodes a request frame its Executor
\* does not verify, the server's end of the socket being open.
DecodesRejected(s) ==
    /\ peer[s] = [kind |-> "ExecutorNode", st |-> "running"]
    /\ toNode[s] # <<>>
    /\ ~PyEqFalse(Head(toNode[s]))
    /\ ~Executor_verify(Head(toNode[s]))
    /\ ~ServerClosed(s)
    /\ toNode'[s] = Tail(toNode[s])

\* C17: for a request verify rejects the worker writes the single response
\* frame 'Invalid request', not the result of execute, and stays connected;
\* the future of that request resolves to Done with that value.
C17_RejectedRequest ==
    /\ [][\A s \in Socks :
             DecodesRejected(s) =>
                /\ toServer'[s] = Append(toServer[s], "'Invalid request'")
                /\ peer'[s].st = "running"]_vars
    /\ [](\A f \in FutureIds :
             (/\ futures[f].status = "Done"
              /\ peer[futures[f].node].kind = "ExecutorNode"
              /\ ~Executor_verify(futures[f].request))
             => futures[f].result = "'Invalid request'")

\* A request was rejected by the Executor and its future resolved, after a
\* request the same node executed.
C17_Witness ==
    \E f, g \in FutureIds :
        /\ f < g
        /\ futures[f].node = futures[g].node
        /\ peer[futures[f].node].kind = "ExecutorNode"
        /\ futures[f].status = "Done"
        /\ futures[f].result = "42"
        /\ futures[g].request = "7"
        /\ futures[g].status = "Done"
        /\ futures[g].result = "'Invalid request'"

\* The frames written to socket s that have not been answered: the requests
\* the worker has still to read and the responses the server has still to read.
Unanswered(s) == Len(toNode[s]) + Len(toServer[s])

\* C18: a Server.request with a payload that cannot be pickled leaves the
\* queue of the node aligned with the wire: on a connection where every
\* request so far was answered or is in flight, the step that queues a
\* future also writes its frame.
C18_UnserializableKeepsAlignment ==
    [][\A i \in NodeIds :
          (/\ RequestsTo(i)
           /\ ~PeerClosed(nodes[i + 1].socket)
           /\ Len(nodes[i + 1].requests) = Unanswered(nodes[i + 1].socket))
          => Len(nodes'[i + 1].requests) = Len(toNode'[nodes[i + 1].socket])
                                            + Len(toServer'[nodes[i + 1].socket])]_vars

\* An ExecutorNode takes the step that decodes the request frame at the head
\* of its stream, the server's end of the socket being open.
ExecutorDecodes(s) ==
    /\ peer[s] = [kind |-> "ExecutorNode", st |-> "running"]
    /\ toNode[s] # <<>>
    /\ ~ServerClosed(s)
    /\ toNode'[s] = Tail(toNode[s])

\* C21: every request payload the worker decodes, 0 and False included, is
\* handled and answered with one response frame, and the worker keeps
\* running: the loop ends only at EOF or on a frame that cannot be decoded.
\* (Stated for an ExecutorNode whose Executor never raises.)
C21_FalsyRequestAnswered ==
    [][\A s \in Socks :
          ExecutorDecodes(s) =>
             /\ Len(toServer'[s]) = Len(toServer[s]) + 1
             /\ peer'[s].st = "running"]_vars

\* C22: every future in the queue of a node record of Server.nodes is
\* InProgress, and no future is in two queues or twice in one queue.
C22_QueuedAreInProgress ==
    /\ \A i \in 1..Len(nodes) : \A j \in 1..Len(nodes[i].requests) :
          /\ nodes[i].requests[j] \in FutureIds
          /\ futures[nodes[i].requests[j]].status = "InProgress"
    /\ \A i1, i2 \in 1..Len(nodes) :
          \A j1 \in 1..Len(nodes[i1].requests), j2 \in 1..Len(nodes[i2].requests) :
             nodes[i1].requests[j1] = nodes[i2].requests[j2] => (i1 = i2 /\ j1 = j2)

\* A node has answered one of its two requests and the other is still queued.
C22_Witness ==
    \E i \in 1..Len(nodes) : \E f \in FutureIds :
        /\ Len(nodes[i].requests) = 1
        /\ f < nodes[i].requests[1]
        /\ futures[f].node = nodes[i].socket
        /\ futures[f].status = "Done"

C24_RoundCompletes == pc # "crashed" /\ loopErr = "none"

\* C25: a future whose status is Done holds its response, and a call of
\* result() that saw the status Done returns that response, never the
\* NoResult placeholder.
C25_DoneHasResult ==
    /\ \A f \in FutureIds : futures[f].status = "Done" => futures[f].result # NoResult
    /\ (reader.pc = "returned" /\ reader.status = "Done") =>
          /\ reader.value # NoResult
          /\ reader.value = futures[reader.Request].result

\* result() was called while the future was InProgress and has returned
\* the response.
C25_Witness ==
    /\ reader.pc = "returned"
    /\ reader.status = "Done"
    /\ reader.value = "42"
    /\ futures[reader.Request].request = "'6*7'"
====
